---- MODULE Spec2Model ----
(***************************************************************************)
(* Embrio Player v3: the sequencer of src/js/embryo-player.js (class       *)
(* EmbrioPlayer and class BPMController) as a state machine.               *)
(*                                                                         *)
(* Numbers.  The program computes in IEEE doubles (seconds).  The model    *)
(* computes in exact rationals <<n, d>> (d > 0, lowest terms), so that     *)
(* 60 / bpm, the tempo rescale and the modulo are what the code computes   *)
(* up to rounding.  The one place where rounding decides a branch, the     *)
(* accumulation nextNoteTime += step compared with a bar boundary, keeps   *)
(* the sign of its rounding error in nextNoteErr.                          *)
(*                                                                         *)
(* Methods of the player are operators from a state record to a state      *)
(* record (s |-> s'), composed as the code composes its calls; an action   *)
(* is one handler (a user event or a timer callback) applied to the        *)
(* current state.                                                          *)
(***************************************************************************)
EXTENDS Integers, Sequences, FiniteSets, TLC

VARIABLES
    now,                \* audioContext.currentTime (seconds); Date.now() is its ms
    timers,             \* pending setTimeout / setInterval / requestAnimationFrame
    timerSeq,           \* last handle returned by setTimeout / setInterval
    isRecording, isOverdubbing, isPlaying,
    bpm, currentBar, currentBeat,
    sequence,           \* BAR_COUNT bars, each a sequence of events
    sequenceStartTime, overdubStartTime,
    nextNoteTime, nextNoteErr,
    schedulerTimer, metronomeInterval, beatInterval,
    currentBank,
    scheduledEvents,    \* Set of dedup keys <<pad, bank, ms>>
    quantizeMode, quantizeStrength,
    tapTimes,           \* BPMController.tapTimes (ms)
    longPressTimer, rapidTimer, isLongPressing,     \* BPMController
    started,            \* log of source.start(startAt, ...) requests of playPad
    activeSources,      \* pad -> index in started of its active source, 0: none
    dropped,            \* log of "Skipping late event": keys <<pad, bank, when>>
    halted,             \* the last transport click was STOP (no start click since)
    jumps,              \* number of clock jumps (late callbacks) so far
    lastOp,             \* the handler that ran last
    logged,             \* the messages the last handler wrote, as tags
    userOps,            \* number of user events so far
    probe,              \* the last direct call of a method: its argument and results
    userBank            \* the bank the user selected last (a bank button)

vars == <<now, timers, timerSeq, isRecording, isOverdubbing, isPlaying, bpm,
          currentBar, currentBeat, sequence, sequenceStartTime,
          overdubStartTime, nextNoteTime, nextNoteErr, schedulerTimer,
          metronomeInterval, beatInterval, currentBank, scheduledEvents,
          quantizeMode, quantizeStrength, tapTimes, longPressTimer, rapidTimer,
          isLongPressing, started, activeSources, dropped, halted, jumps,
          lastOp, logged, userOps, probe, userBank>>

-----------------------------------------------------------------------------
(* Rational arithmetic: <<n, d>>, d > 0, gcd(n, d) = 1.                    *)

Abs(x) == IF x < 0 THEN -x ELSE x

RECURSIVE GCD(_, _)
GCD(a, b) == IF b = 0 THEN a ELSE GCD(b, a % b)

Norm(n, d) == LET g == GCD(Abs(n), d) IN <<n \div g, d \div g>>

RInt(k) == <<k, 1>>

RAdd(a, b) ==
    LET g == GCD(a[2], b[2])
    IN  Norm(a[1] * (b[2] \div g) + b[1] * (a[2] \div g), (a[2] \div g) * b[2])

RNeg(a) == <<-a[1], a[2]>>

RSub(a, b) == RAdd(a, RNeg(b))

RMul(a, b) ==
    LET g1 == GCD(Abs(a[1]), b[2])
        g2 == GCD(Abs(b[1]), a[2])
    IN  <<(a[1] \div g1) * (b[1] \div g2), (a[2] \div g2) * (b[2] \div g1)>>

\* a / b for b # 0
RDiv(a, b) ==
    RMul(a, IF b[1] > 0 THEN <<b[2], b[1]>> ELSE <<-b[2], -b[1]>>)

RLt(a, b) ==
    LET g == GCD(a[2], b[2])
    IN  a[1] * (b[2] \div g) < b[1] * (a[2] \div g)

RLe(a, b) == ~RLt(b, a)

RIsInt(a) == a[2] = 1

\* Math.floor
RFloor(a) == a[1] \div a[2]

\* truncation toward zero
RTrunc(a) == IF a[1] >= 0 THEN a[1] \div a[2] ELSE -((-a[1]) \div a[2])

\* the JavaScript % of two numbers: the result has the sign of the dividend
RMod(a, b) == RSub(a, RMul(b, RInt(RTrunc(RDiv(a, b)))))

\* Math.round: the nearest integer, a half rounds up
RRound(a) == RFloor(RAdd(a, <<1, 2>>))

\* x.toFixed(3), as the number of thousandths it prints
ToFixed3(a) == RRound(RMul(a, RInt(1000)))

-----------------------------------------------------------------------------
(* Constants of the program.                                               *)

BEATS_PER_BAR == 4
MIN_BPM == 60
MAX_BPM == 200
PRE_COUNT_BARS == 1
BAR_COUNT == 4
BPM_LONG_PRESS_DELAY == 200
BPM_RAPID_INTERVAL == 200
GRID_STEPS_PER_BEAT == 4
INITIAL_BPM == 120
MAX_TAPS == 4
SCHEDULE_AHEAD_TIME == Norm(12, 100)
LOOKAHEAD == Norm(25, 1000)
START_OFFSET == Norm(5, 100)
MIN_LEAD == Norm(1, 100)
DEDUP_TTL == RInt(1)
RESTART_DELAY == Norm(100, 1000)
QUANTIZE_STRENGTH == Norm(5, 10)
Strengths == <<RInt(0), Norm(25, 100), Norm(50, 100), Norm(75, 100), RInt(1)>>
Banks == {"A", "B", "C", "D"}

-----------------------------------------------------------------------------
(* Bounds of the model.                                                    *)

\* pads 1..MaxPad are used
MaxPad == 2
\* a requestAnimationFrame callback runs RafDelayMs ms after the request
RafDelayMs == 16

Pads == 1..MaxPad

\* the samples that are loaded: bank -> set of pads.  Pad MaxPad of bank B is
\* empty, and banks C and D are empty.
samples == [b \in Banks |->
              IF b = "A" THEN Pads
              ELSE IF b = "B" THEN Pads \ {MaxPad}
              ELSE {}]

-----------------------------------------------------------------------------
(* The state as one record, and back.                                      *)

Cur == [now |-> now, timers |-> timers, timerSeq |-> timerSeq,
        isRecording |-> isRecording, isOverdubbing |-> isOverdubbing,
        isPlaying |-> isPlaying, bpm |-> bpm, currentBar |-> currentBar,
        currentBeat |-> currentBeat, sequence |-> sequence,
        sequenceStartTime |-> sequenceStartTime,
        overdubStartTime |-> overdubStartTime,
        nextNoteTime |-> nextNoteTime, nextNoteErr |-> nextNoteErr,
        schedulerTimer |-> schedulerTimer,
        metronomeInterval |-> metronomeInterval,
        beatInterval |-> beatInterval, currentBank |-> currentBank,
        scheduledEvents |-> scheduledEvents, quantizeMode |-> quantizeMode,
        quantizeStrength |-> quantizeStrength, tapTimes |-> tapTimes,
        longPressTimer |-> longPressTimer, rapidTimer |-> rapidTimer,
        isLongPressing |-> isLongPressing,
        started |-> started, activeSources |-> activeSources,
        dropped |-> dropped, halted |-> halted, jumps |-> jumps,
        lastOp |-> lastOp, logged |-> logged, userOps |-> userOps,
        probe |-> probe, userBank |-> userBank]

Commit(s) ==
    /\ now' = s.now
    /\ timers' = s.timers
    /\ timerSeq' = s.timerSeq
    /\ isRecording' = s.isRecording
    /\ isOverdubbing' = s.isOverdubbing
    /\ isPlaying' = s.isPlaying
    /\ bpm' = s.bpm
    /\ currentBar' = s.currentBar
    /\ currentBeat' = s.currentBeat
    /\ sequence' = s.sequence
    /\ sequenceStartTime' = s.sequenceStartTime
    /\ overdubStartTime' = s.overdubStartTime
    /\ nextNoteTime' = s.nextNoteTime
    /\ nextNoteErr' = s.nextNoteErr
    /\ schedulerTimer' = s.schedulerTimer
    /\ metronomeInterval' = s.metronomeInterval
    /\ beatInterval' = s.beatInterval
    /\ currentBank' = s.currentBank
    /\ scheduledEvents' = s.scheduledEvents
    /\ quantizeMode' = s.quantizeMode
    /\ quantizeStrength' = s.quantizeStrength
    /\ tapTimes' = s.tapTimes
    /\ longPressTimer' = s.longPressTimer
    /\ rapidTimer' = s.rapidTimer
    /\ isLongPressing' = s.isLongPressing
    /\ started' = s.started
    /\ activeSources' = s.activeSources
    /\ dropped' = s.dropped
    /\ halted' = s.halted
    /\ jumps' = s.jumps
    /\ lastOp' = s.lastOp
    /\ logged' = s.logged
    /\ userOps' = s.userOps
    /\ probe' = s.probe
    /\ userBank' = s.userBank

Start(s) ==
    /\ now = s.now
    /\ timers = s.timers
    /\ timerSeq = s.timerSeq
    /\ isRecording = s.isRecording
    /\ isOverdubbing = s.isOverdubbing
    /\ isPlaying = s.isPlaying
    /\ bpm = s.bpm
    /\ currentBar = s.currentBar
    /\ currentBeat = s.currentBeat
    /\ sequence = s.sequence
    /\ sequenceStartTime = s.sequenceStartTime
    /\ overdubStartTime = s.overdubStartTime
    /\ nextNoteTime = s.nextNoteTime
    /\ nextNoteErr = s.nextNoteErr
    /\ schedulerTimer = s.schedulerTimer
    /\ metronomeInterval = s.metronomeInterval
    /\ beatInterval = s.beatInterval
    /\ currentBank = s.currentBank
    /\ scheduledEvents = s.scheduledEvents
    /\ quantizeMode = s.quantizeMode
    /\ quantizeStrength = s.quantizeStrength
    /\ tapTimes = s.tapTimes
    /\ longPressTimer = s.longPressTimer
    /\ rapidTimer = s.rapidTimer
    /\ isLongPressing = s.isLongPressing
    /\ started = s.started
    /\ activeSources = s.activeSources
    /\ dropped = s.dropped
    /\ halted = s.halted
    /\ jumps = s.jumps
    /\ lastOp = s.lastOp
    /\ logged = s.logged
    /\ userOps = s.userOps
    /\ probe = s.probe
    /\ userBank = s.userBank

\* no method has been called directly
NoProbe == [arg |-> <<0, 1>>, out |-> <<0, 1>>, again |-> <<0, 1>>]

EmptySequence == [b \in 0..(BAR_COUNT - 1) |-> <<>>]

\* new EmbrioPlayer(), with the audio context started and the samples loaded
Constructed ==
    [now |-> RInt(0), timers |-> {}, timerSeq |-> 0,
     isRecording |-> FALSE, isOverdubbing |-> FALSE, isPlaying |-> FALSE,
     bpm |-> INITIAL_BPM, currentBar |-> 0, currentBeat |-> 1,
     sequence |-> EmptySequence,
     sequenceStartTime |-> RInt(0), overdubStartTime |-> RInt(0),
     nextNoteTime |-> RInt(0), nextNoteErr |-> 0,
     schedulerTimer |-> 0, metronomeInterval |-> 0, beatInterval |-> 0,
     currentBank |-> "A", scheduledEvents |-> {},
     quantizeMode |-> TRUE, quantizeStrength |-> QUANTIZE_STRENGTH,
     tapTimes |-> <<>>,
     longPressTimer |-> 0, rapidTimer |-> 0, isLongPressing |-> FALSE,
     started |-> <<>>,
     activeSources |-> [p \in Pads |-> 0],
     dropped |-> {}, halted |-> FALSE, jumps |-> 0,
     lastOp |-> "constructor", logged |-> {}, userOps |-> 0,
     probe |-> NoProbe, userBank |-> "A"]

-----------------------------------------------------------------------------
(* Timers of the platform: setTimeout, setInterval, requestAnimationFrame. *)
(* A timer is [kind, id, due, period, n1, n2, key]: id is the handle (0    *)
(* when the code keeps none), period the delay, n1 and n2 the counters its *)
(* closure holds, key the value its closure holds.                         *)

NoKey == <<0, "-", 0>>

Timer(kind, id, due, period, n1, n2, key) ==
    [kind |-> kind, id |-> id, due |-> due, period |-> period,
     n1 |-> n1, n2 |-> n2, key |-> key]

\* the delay a timer API takes, ms (a rational): whole milliseconds, in seconds
TimerDelay(ms) == Norm(RFloor(ms), 1000)

\* setTimeout(f, ms) whose handle the code drops
SetTimeout(s, kind, ms, n1, key) ==
    [s EXCEPT !.timers = @ \cup
        {Timer(kind, 0, RAdd(s.now, TimerDelay(ms)), TimerDelay(ms), n1, 0, key)}]

\* setInterval(f, ms): the handle is the new timerSeq
SetInterval(s, kind, ms) ==
    [s EXCEPT !.timerSeq = @ + 1,
              !.timers = @ \cup
        {Timer(kind, s.timerSeq + 1, RAdd(s.now, TimerDelay(ms)),
               TimerDelay(ms), 0, 0, NoKey)}]

\* clearInterval(id) / clearTimeout(id)
ClearTimer(s, id) == [s EXCEPT !.timers = {t \in @ : t.id # id \/ t.id = 0}]

Log(s, tag) == [s EXCEPT !.logged = @ \cup {tag}]

-----------------------------------------------------------------------------
(* Methods of EmbrioPlayer.                                                *)

barDuration(s) == RMul(Norm(60, s.bpm), RInt(BEATS_PER_BAR))

beatDuration(s) == Norm(60, s.bpm)

\* a test for recorded content that every sequence passes
hasRecordedSequenceAlways(s) == s.sequence = s.sequence

hasRecordedSequence(s) ==
    \E b \in DOMAIN s.sequence : Len(s.sequence[b]) > 0

stopTimers(s) ==
    LET s1 == IF s.metronomeInterval # 0
              THEN [ClearTimer(s, s.metronomeInterval)
                        EXCEPT !.metronomeInterval = 0]
              ELSE s
        s2 == IF s1.beatInterval # 0
              THEN [ClearTimer(s1, s1.beatInterval) EXCEPT !.beatInterval = 0]
              ELSE s1
    IN  s2

\* every active source is stopped and forgotten; the dedup set is cleared
\* cleanupActiveSources that forgets the sources without stopping them
cleanupActiveSourcesForgets(s) ==
    [s EXCEPT !.activeSources = [p \in Pads |-> 0],
              !.scheduledEvents = {}]

\* cleanupActiveSources that leaves the dedup keys in place
cleanupActiveSourcesKeepsKeys(s) ==
    [s EXCEPT
        !.started = [i \in DOMAIN @ |->
            IF \E p \in Pads : s.activeSources[p] = i
            THEN [@[i] EXCEPT !.stopped = TRUE] ELSE @[i]],
        !.activeSources = [p \in Pads |-> 0]]

cleanupActiveSources(s) ==
    [s EXCEPT
        !.started = [i \in DOMAIN @ |->
            IF \E p \in Pads : s.activeSources[p] = i
            THEN [@[i] EXCEPT !.stopped = TRUE] ELSE @[i]],
        !.activeSources = [p \in Pads |-> 0],
        !.scheduledEvents = {}]

\* stopSequence that also moves the cursor to the current time
stopSequenceMovesCursor(s) ==
    LET s1 == IF s.schedulerTimer # 0
              THEN [ClearTimer(s, s.schedulerTimer) EXCEPT !.schedulerTimer = 0]
              ELSE s
        s2 == [s1 EXCEPT !.isPlaying = FALSE, !.isRecording = FALSE]
        s3 == cleanupActiveSources(stopTimers(s2))
    IN  [s3 EXCEPT !.scheduledEvents = {}, !.currentBar = 0, !.currentBeat = 1,
                   !.sequenceStartTime = s.now, !.nextNoteTime = s.now]

stopSequence(s) ==
    LET s1 == IF s.schedulerTimer # 0
              THEN [ClearTimer(s, s.schedulerTimer) EXCEPT !.schedulerTimer = 0]
              ELSE s
        s2 == [s1 EXCEPT !.isPlaying = FALSE, !.isRecording = FALSE]
        s3 == cleanupActiveSources(stopTimers(s2))
    IN  [s3 EXCEPT !.scheduledEvents = {}, !.currentBar = 0, !.currentBeat = 1]

startSequence(s) ==
    LET s1 == cleanupActiveSources(s)
        s2 == [s1 EXCEPT !.isPlaying = TRUE,
                         !.sequenceStartTime = RAdd(s.now, START_OFFSET),
                         !.nextNoteTime = RAdd(s.now, START_OFFSET),
                         !.nextNoteErr = 0,
                         !.currentBar = 0,
                         !.currentBeat = 1]
        s3 == SetInterval(s2, "scheduler", RMul(LOOKAHEAD, RInt(1000)))
    IN  [s3 EXCEPT !.schedulerTimer = s3.timerSeq]

selectBank(s, bank) ==
    IF s.currentBank = bank THEN s ELSE [s EXCEPT !.currentBank = bank]

validatePlayback(s, padNumber) == padNumber \in samples[s.currentBank]

\* playPad that gives up playback when the pad has no sample
playPadGivesUp(s, padNumber, when) ==
    IF ~validatePlayback(s, padNumber)
    THEN [Log(s, "no-sample") EXCEPT !.isPlaying = FALSE]
    ELSE
        LET startAt == IF when = RInt(0) THEN s.now ELSE when
            s1 == [s EXCEPT
                     !.started = Append(@,
                        [pad |-> padNumber, bank |-> s.currentBank,
                         when |-> startAt, sched |-> when # RInt(0),
                         stopped |-> FALSE]),
                     !.activeSources[padNumber] = Len(s.started) + 1]
        IN  IF s1.isRecording
            THEN SetTimeout(s1, "raf", RInt(RafDelayMs), padNumber, NoKey)
            ELSE s1

\* playPad(padNumber, when): when = 0 is the default of a live pad hit
playPad(s, padNumber, when) ==
    IF ~validatePlayback(s, padNumber) THEN Log(s, "no-sample")
    ELSE
        LET startAt == IF when = RInt(0) THEN s.now ELSE when
            s1 == [s EXCEPT
                     !.started = Append(@,
                        [pad |-> padNumber, bank |-> s.currentBank,
                         when |-> startAt, sched |-> when # RInt(0),
                         stopped |-> FALSE]),
                     !.activeSources[padNumber] = Len(s.started) + 1]
        IN  IF s1.isRecording
            THEN SetTimeout(s1, "raf", RInt(RafDelayMs), padNumber, NoKey)
            ELSE s1

\* triggerScheduled without the test of the dedup set
triggerScheduledNoDedup(s, ev, when) ==
    LET eventKey == <<ev.pad, ev.bank, ToFixed3(when)>>
        s1 == [s EXCEPT !.scheduledEvents = @ \cup {eventKey}]
        s2 == SetTimeout(s1, "dedup", RMul(DEDUP_TTL, RInt(1000)), 0, eventKey)
        originalBank == s.currentBank
        s3 == IF ev.bank # originalBank THEN selectBank(s2, ev.bank) ELSE s2
        s4 == playPad(s3, ev.pad, when)
    IN  IF ev.bank # originalBank
        THEN SetTimeout(s4, "bankRestore", RInt(0), 0, <<0, originalBank, 0>>)
        ELSE s4

triggerScheduled(s, ev, when) ==
    LET eventKey == <<ev.pad, ev.bank, ToFixed3(when)>>
    IN  IF eventKey \in s.scheduledEvents THEN Log(s, "duplicate-prevented")
        ELSE
            LET s1 == [s EXCEPT !.scheduledEvents = @ \cup {eventKey}]
                s2 == SetTimeout(s1, "dedup", RMul(DEDUP_TTL, RInt(1000)), 0, eventKey)
                originalBank == s.currentBank
                s3 == IF ev.bank # originalBank
                      THEN selectBank(s2, ev.bank) ELSE s2
                s4 == playPad(s3, ev.pad, when)
            IN  IF ev.bank # originalBank
                THEN SetTimeout(s4, "bankRestore", RInt(0), 0,
                                <<0, originalBank, 0>>)
                ELSE s4

\* Math.floor of a quotient q that carries a rounding error of sign err
FloorErr(q, err) ==
    IF RIsInt(q) /\ err < 0 THEN RFloor(q) - 1 ELSE RFloor(q)

\* nextNoteTime < limit
NextNoteBefore(s, limit) ==
    \/ RLt(s.nextNoteTime, limit)
    \/ s.nextNoteTime = limit /\ s.nextNoteErr < 0

\* EventWhen without the event's offset in its bar
EventWhenNoOffset(s, cycle, barIndex, ev) ==
    LET loopDuration == RMul(barDuration(s), RInt(BAR_COUNT))
    IN  RAdd(RAdd(s.sequenceStartTime, RMul(RInt(cycle), loopDuration)),
             RMul(RInt(barIndex), barDuration(s)))

\* the absolute start time of an event of bar barIndex in a loop cycle
EventWhen(s, cycle, barIndex, ev) ==
    LET loopDuration == RMul(barDuration(s), RInt(BAR_COUNT))
    IN  RAdd(RAdd(RAdd(s.sequenceStartTime, RMul(RInt(cycle), loopDuration)),
                  RMul(RInt(barIndex), barDuration(s))),
             ev.time)

\* InWindow without the lower end
InWindowNoLead(when, nowT) == RLt(when, RAdd(nowT, SCHEDULE_AHEAD_TIME))

\* the window in which an event is dispatched
InWindow(when, nowT) ==
    /\ RLe(RAdd(nowT, MIN_LEAD), when)
    /\ RLt(when, RAdd(nowT, SCHEDULE_AHEAD_TIME))

\* the for loop over one bar's events, from the i-th on
RECURSIVE ScheduleBar(_, _, _, _, _, _)
ScheduleBar(s, bar, i, cycle, barIndex, nowT) ==
    IF i > Len(bar) THEN s
    ELSE
        LET ev == bar[i]
            when == EventWhen(s, cycle, barIndex, ev)
            s1 == IF InWindow(when, nowT)
                  THEN triggerScheduled(Log(s, "scheduling"), ev, when)
                  ELSE IF RLt(when, RAdd(nowT, MIN_LEAD))
                  THEN [Log(s, "skipping") EXCEPT
                          !.dropped = @ \cup {<<ev.pad, ev.bank, when>>}]
                  ELSE s
        IN  ScheduleBar(s1, bar, i + 1, cycle, barIndex, nowT)

\* the while loop of schedulerTick; drift is the sign of the rounding error
\* that an addition to nextNoteTime leaves in this tick
RECURSIVE ScheduleLoop(_, _, _)
ScheduleLoop(s, nowT, drift) ==
    IF ~NextNoteBefore(s, RAdd(nowT, SCHEDULE_AHEAD_TIME)) THEN s
    ELSE
        LET loopDuration == RMul(barDuration(s), RInt(BAR_COUNT))
            timeFromStart == RSub(s.nextNoteTime, s.sequenceStartTime)
            err == s.nextNoteErr
            cycle == FloorErr(RDiv(timeFromStart, loopDuration), err)
            rem == RMod(timeFromStart, loopDuration)
            timeInCycle ==
                IF rem = RInt(0) /\ err < 0 /\ RLt(RInt(0), timeFromStart)
                THEN loopDuration
                ELSE IF rem = RInt(0) /\ err > 0 /\ RLt(timeFromStart, RInt(0))
                THEN RNeg(loopDuration)
                ELSE rem
            barIndex == FloorErr(RDiv(timeInCycle, barDuration(s)), err)
            s1 == IF barIndex \in DOMAIN s.sequence
                  THEN ScheduleBar(s, s.sequence[barIndex], 1, cycle,
                                   barIndex, nowT)
                  ELSE s
            s2 == [s1 EXCEPT
                     !.nextNoteTime =
                        RAdd(@, RDiv(beatDuration(s), RInt(GRID_STEPS_PER_BEAT))),
                     !.nextNoteErr = drift]
        IN  ScheduleLoop(s2, nowT, drift)

schedulerTick(s, drift) ==
    LET nowT == s.now
        loopDuration == RMul(barDuration(s), RInt(BAR_COUNT))
        elapsedTime == RSub(nowT, s.sequenceStartTime)
        timeInCurrentCycle == RMod(elapsedTime, loopDuration)
        s1 == IF RLt(RInt(0), s.sequenceStartTime)
              THEN [s EXCEPT
                      !.currentBar =
                          RFloor(RDiv(timeInCurrentCycle, barDuration(s))),
                      !.currentBeat =
                          RFloor(RDiv(RMod(timeInCurrentCycle, barDuration(s)),
                                      beatDuration(s))) + 1]
              ELSE s
    IN  ScheduleLoop(s1, nowT, drift)

\* quantizeTime that snaps fully, whatever the strength
quantizeTimeFull(s, time) ==
    LET stepDuration == RDiv(beatDuration(s), RInt(GRID_STEPS_PER_BEAT))
        stepIndex == RRound(RDiv(time, stepDuration))
    IN  RMod(RMul(RInt(stepIndex), stepDuration),
             RMul(beatDuration(s), RInt(BEATS_PER_BAR)))

\* quantizeTime that blends toward the middle of the grid step
quantizeTimeMidStep(s, time) ==
    LET stepDuration == RDiv(beatDuration(s), RInt(GRID_STEPS_PER_BEAT))
        stepIndex == RFloor(RDiv(time, stepDuration))
        quantizedTime == RMul(RAdd(RInt(stepIndex), <<1, 2>>), stepDuration)
        finalTime == RAdd(time, RMul(RSub(quantizedTime, time),
                                     s.quantizeStrength))
    IN  RMod(finalTime, RMul(beatDuration(s), RInt(BEATS_PER_BAR)))

\* quantizeTime without the final modulo
quantizeTimeNoWrap(s, time) ==
    LET stepDuration == RDiv(beatDuration(s), RInt(GRID_STEPS_PER_BEAT))
        stepIndex == RRound(RDiv(time, stepDuration))
        quantizedTime == RMul(RInt(stepIndex), stepDuration)
    IN  RAdd(time, RMul(RSub(quantizedTime, time), s.quantizeStrength))

quantizeTime(s, time) ==
    LET stepDuration == RDiv(beatDuration(s), RInt(GRID_STEPS_PER_BEAT))
        stepIndex == RRound(RDiv(time, stepDuration))
        quantizedTime == RMul(RInt(stepIndex), stepDuration)
        finalTime == RAdd(time, RMul(RSub(quantizedTime, time),
                                     s.quantizeStrength))
    IN  RMod(finalTime, RMul(beatDuration(s), RInt(BEATS_PER_BAR)))

\* sequence[currentBar].push(...) throws a TypeError when currentBar is no
\* index of the array: the callback ends there and nothing is stored
recordPadEvent(s, padNumber) ==
    LET origin == IF s.isOverdubbing THEN s.overdubStartTime
                  ELSE s.sequenceStartTime
        relativeTime == RMod(RSub(s.now, origin), barDuration(s))
        quantizedTime == IF s.quantizeMode THEN quantizeTime(s, relativeTime)
                         ELSE relativeTime
        event == [pad |-> padNumber, time |-> quantizedTime,
                  bank |-> s.currentBank, originalTime |-> relativeTime,
                  quantized |-> s.quantizeMode, overdubbed |-> s.isOverdubbing]
    IN  IF s.currentBar \in DOMAIN s.sequence
        THEN Log([s EXCEPT !.sequence[s.currentBar] = Append(@, event)],
                 "recorded")
        ELSE Log(s, "TypeError")

\* Clamp that lets every value through
ClampNone(v) == v

Clamp(v) ==
    IF v < MIN_BPM THEN MIN_BPM ELSE IF v > MAX_BPM THEN MAX_BPM ELSE v

\* RescaleEvent that leaves originalTime as it was
RescaleEventTimeOnly(event, bpmRatio) ==
    [event EXCEPT !.time = RMul(@, bpmRatio)]

\* RescaleEvent that keeps whole milliseconds only
RescaleEventMillis(event, bpmRatio) ==
    [event EXCEPT
        !.time = Norm(RFloor(RMul(RMul(@, bpmRatio), RInt(1000))), 1000),
        !.originalTime = Norm(RFloor(RMul(RMul(@, bpmRatio), RInt(1000))), 1000)]

RescaleEvent(event, bpmRatio) ==
    [event EXCEPT !.time = RMul(@, bpmRatio),
                  !.originalTime = RMul(@, bpmRatio)]

\* recalculateSequenceTiming that rescales a playing sequence a second time
\* for the restart
recalculateSequenceTimingTwice(s, oldBPM, newBPM) ==
    IF oldBPM = newBPM THEN s
    ELSE
        LET bpmRatio == Norm(oldBPM, newBPM)
            twice == IF s.isPlaying THEN RMul(bpmRatio, bpmRatio) ELSE bpmRatio
            s1 == [s EXCEPT !.sequence =
                     [b \in DOMAIN @ |->
                        [i \in DOMAIN @[b] |-> RescaleEvent(@[b][i], twice)]]]
        IN  IF hasRecordedSequence(s) /\ s.isPlaying
            THEN SetTimeout(stopSequence(Log(s1, "restarting")),
                            "restart", RMul(RESTART_DELAY, RInt(1000)), 0, NoKey)
            ELSE s1

recalculateSequenceTiming(s, oldBPM, newBPM) ==
    IF oldBPM = newBPM THEN s
    ELSE
        LET bpmRatio == Norm(oldBPM, newBPM)
            s1 == [s EXCEPT !.sequence =
                     [b \in DOMAIN @ |->
                        [i \in DOMAIN @[b] |-> RescaleEvent(@[b][i], bpmRatio)]]]
        IN  IF hasRecordedSequence(s) /\ s.isPlaying
            THEN SetTimeout(stopSequence(Log(s1, "restarting")),
                            "restart", RMul(RESTART_DELAY, RInt(1000)), 0, NoKey)
            ELSE s1

stopMetronome(s) ==
    IF s.metronomeInterval # 0
    THEN [ClearTimer(s, s.metronomeInterval) EXCEPT !.metronomeInterval = 0]
    ELSE s

startMetronome(s) ==
    LET s1 == IF s.metronomeInterval # 0
              THEN ClearTimer(s, s.metronomeInterval) ELSE s
        s2 == [s1 EXCEPT !.currentBeat = 1, !.currentBar = 0]
        s3 == SetInterval(s2, "metronome", Norm(60000, s.bpm))
    IN  [s3 EXCEPT !.metronomeInterval = s3.timerSeq]

startBarAdvancement(s) ==
    LET s1 == IF s.beatInterval # 0 THEN ClearTimer(s, s.beatInterval) ELSE s
        s2 == [s1 EXCEPT !.currentBar = 0, !.currentBeat = 1]
        s3 == SetInterval(s2, "beat", Norm(60000, s.bpm))
    IN  [s3 EXCEPT !.beatInterval = s3.timerSeq]

restartTimers(s) ==
    LET s1 == stopTimers(s)
    IN  IF s1.isRecording \/ s1.isPlaying
        THEN startBarAdvancement(IF s1.isRecording THEN startMetronome(s1)
                                 ELSE s1)
        ELSE s1

changeTempo(s, change) ==
    LET oldBPM == s.bpm
        s1 == [s EXCEPT !.bpm = Clamp(s.bpm + change)]
        s2 == IF hasRecordedSequence(s1)
              THEN recalculateSequenceTiming(s1, oldBPM, s1.bpm) ELSE s1
    IN  IF s2.isRecording \/ s2.isPlaying THEN restartTimers(s2) ELSE s2

\* Date.now()
DateNow(s) == RFloor(RMul(s.now, RInt(1000)))

RECURSIVE SumSeq(_)
SumSeq(q) == IF q = <<>> THEN 0 ELSE Head(q) + SumSeq(Tail(q))

\* BPMController.handleTapTempo; 60000 / 0 is Infinity, which clamps to MAX_BPM
handleTapTempo(s) ==
    LET pushed == Append(s.tapTimes, DateNow(s))
        taps == IF Len(pushed) > MAX_TAPS THEN Tail(pushed) ELSE pushed
        intervals == [i \in 1..(Len(taps) - 1) |-> taps[i + 1] - taps[i]]
        total == SumSeq(intervals)
        newBPM == RRound(Norm(60000 * Len(intervals), total))
        clampedBPM == IF total = 0 THEN MAX_BPM ELSE Clamp(newBPM)
        s1 == [s EXCEPT !.tapTimes = taps]
        s2 == IF Len(taps) >= 2 /\ clampedBPM # s.bpm
              THEN LET s3 == [s1 EXCEPT !.bpm = clampedBPM]
                   IN  IF hasRecordedSequence(s3)
                       THEN recalculateSequenceTiming(s3, s.bpm, clampedBPM)
                       ELSE s3
              ELSE s1
    IN  SetTimeout(s2, "tapClear", RInt(3000), 0, NoKey)

\* the timeout of handleTapTempo that forgets old taps
tapClear(s) ==
    IF Len(s.tapTimes) > 0 /\ DateNow(s) - s.tapTimes[Len(s.tapTimes)] > 3000
    THEN [s EXCEPT !.tapTimes = <<>>]
    ELSE s

\* the preCount() closure of startPrecount: remaining is preCountRemaining,
\* delay the beatDuration * 1000 it was created with
preCount(s, remaining, delay) ==
    IF remaining > 0
    THEN [s EXCEPT !.timers = @ \cup
            {Timer("precount", 0, RAdd(s.now, delay), delay,
                   remaining - 1, 0, NoKey)}]
    ELSE startBarAdvancement(
            IF s.isOverdubbing THEN s
            ELSE [s EXCEPT !.sequenceStartTime = s.now])

startPrecount(s) ==
    preCount(startMetronome(s), PRE_COUNT_BARS * BEATS_PER_BAR,
             TimerDelay(RMul(beatDuration(s), RInt(1000))))

startRecording(s) ==
    LET s1 == [s EXCEPT !.isPlaying = FALSE,
                        !.isRecording = TRUE,
                        !.sequence = EmptySequence,
                        !.currentBar = 0,
                        !.currentBeat = 1]
    IN  startPrecount(s1)

startOverdub(s) ==
    IF ~hasRecordedSequence(s) THEN Log(s, "no-sequence")
    ELSE
        LET s1 == [s EXCEPT !.isPlaying = FALSE,
                            !.isRecording = TRUE,
                            !.isOverdubbing = TRUE,
                            !.currentBar = 0,
                            !.currentBeat = 1,
                            !.overdubStartTime = s.now]
        IN  startPrecount(s1)

stopRecording(s) ==
    stopTimers([s EXCEPT !.isRecording = FALSE, !.isOverdubbing = FALSE])

toggleRecording(s) ==
    IF s.isRecording THEN stopRecording(s) ELSE startRecording(s)

toggleOverdub(s) ==
    IF s.isRecording THEN stopRecording(s) ELSE startOverdub(s)

playSequence(s) ==
    IF s.isPlaying THEN s
    ELSE IF ~hasRecordedSequence(s) THEN Log(s, "no-sequence")
    ELSE startSequence([s EXCEPT !.isPlaying = TRUE,
                                 !.currentBar = 0,
                                 !.currentBeat = 1])

\* stopAll: stopSequence; its own loop over activeSources then finds none,
\* stopSequence has stopped and forgotten them all
stopAll(s) == stopSequence(s)

\* clearSequence that empties the current bar only
clearSequenceOneBar(s) ==
    [s EXCEPT !.sequence[s.currentBar] = <<>>, !.currentBar = 0]

clearSequence(s) ==
    [s EXCEPT !.sequence = EmptySequence, !.currentBar = 0]

IndexOf(q, v) == CHOOSE i \in DOMAIN q : q[i] = v

cycleQuantizeConsolidated(s) ==
    LET nextIndex == (IndexOf(Strengths, s.quantizeStrength) % Len(Strengths)) + 1
    IN  [s EXCEPT !.quantizeStrength = Strengths[nextIndex],
                  !.quantizeMode = Strengths[nextIndex] # RInt(0)]

\* the callback of the metronome interval; tickCount is its counter after ++
metronomeTick(s, tickCount) ==
    LET beat == (tickCount % BEATS_PER_BAR) + 1
    IN  [s EXCEPT !.currentBeat = beat,
                  !.currentBar = IF beat = 1
                                 THEN (tickCount \div BEATS_PER_BAR) % BAR_COUNT
                                 ELSE @]

\* the beat callback that ends the recording one bar early
barAdvancementTickShort(s, tickCount, totalBarsRecorded) ==
    LET beat == (tickCount % BEATS_PER_BAR) + 1
        s1 == [s EXCEPT !.currentBeat = beat]
    IN  IF beat # 1 THEN s1
        ELSE
            LET s2 == [s1 EXCEPT !.currentBar =
                          (tickCount \div BEATS_PER_BAR) % BAR_COUNT]
            IN  IF totalBarsRecorded >= BAR_COUNT - 1
                THEN startSequence(stopMetronome(
                        [s2 EXCEPT !.isRecording = FALSE, !.isPlaying = TRUE]))
                ELSE Log(s2, "recording-bar")

\* the callback of the bar advancement interval while isRecording; tickCount
\* and totalBarsRecorded are its counters after their ++
barAdvancementTick(s, tickCount, totalBarsRecorded) ==
    LET beat == (tickCount % BEATS_PER_BAR) + 1
        s1 == [s EXCEPT !.currentBeat = beat]
    IN  IF beat # 1 THEN s1
        ELSE
            LET s2 == [s1 EXCEPT !.currentBar =
                          (tickCount \div BEATS_PER_BAR) % BAR_COUNT]
            IN  IF totalBarsRecorded >= BAR_COUNT
                THEN startSequence(stopMetronome(
                        [s2 EXCEPT !.isRecording = FALSE, !.isPlaying = TRUE]))
                ELSE Log(s2, "recording-bar")

\* BPMController.startBPMLongPress: the change of a single click, then the
\* long-press timeout, whose handle is kept
startBPMLongPress(s, direction) ==
    LET s1 == changeTempo(s, direction)
    IN  [s1 EXCEPT !.timerSeq = @ + 1,
                   !.longPressTimer = s1.timerSeq + 1,
                   !.timers = @ \cup
                      {Timer("longPress", s1.timerSeq + 1,
                             RAdd(s1.now, Norm(BPM_LONG_PRESS_DELAY, 1000)),
                             Norm(BPM_LONG_PRESS_DELAY, 1000), direction, 0,
                             NoKey)}]

\* the long-press timeout: rapid changes start
longPressTimeout(s, direction) ==
    LET s1 == SetInterval([s EXCEPT !.isLongPressing = TRUE], "rapid",
                          RInt(BPM_RAPID_INTERVAL))
    IN  [s1 EXCEPT !.rapidTimer = s1.timerSeq,
                   !.timers = {IF u.id = s1.timerSeq
                               THEN [u EXCEPT !.n1 = direction] ELSE u
                               : u \in @}]

\* the callback of the rapid interval
rapidTick(s, direction) ==
    IF s.isLongPressing THEN changeTempo(s, direction)
    ELSE [ClearTimer(s, s.rapidTimer) EXCEPT !.rapidTimer = 0]

stopBPMLongPress(s) ==
    LET s1 == IF s.longPressTimer # 0
              THEN [ClearTimer(s, s.longPressTimer) EXCEPT !.longPressTimer = 0]
              ELSE s
        s2 == IF s1.rapidTimer # 0
              THEN [ClearTimer(s1, s1.rapidTimer) EXCEPT !.rapidTimer = 0]
              ELSE s1
    IN  [s2 EXCEPT !.isLongPressing = FALSE]

-----------------------------------------------------------------------------
(* The platform: the clock and the timer queue.                            *)

\* t is the callback that runs next: it is due, and no pending one is earlier
IsNext(t) ==
    /\ t \in timers
    /\ RLe(t.due, now)
    /\ \A u \in timers : RLe(t.due, u.due)

\* the state a handler starts from, and the state it leaves
Begin == [Cur EXCEPT !.logged = {}]

End(s, op) == Commit([s EXCEPT !.lastOp = op])

\* a timeout that fires is gone before its callback runs
Fired(t) == [Begin EXCEPT !.timers = @ \ {t}]

\* an interval that fires is due again one period later on its own grid (a
\* late callback does not shift the grid); its closure keeps the counters
Refired(t, n1, n2) ==
    LET late == RFloor(RDiv(RSub(now, t.due), t.period))
        due == RAdd(t.due, RMul(t.period, RInt(late + 1)))
    IN  [Begin EXCEPT !.timers =
            (@ \ {t}) \cup {[t EXCEPT !.due = due, !.n1 = n1, !.n2 = n2]}]

\* time passes until the next callback is due
Advance(maxMs) ==
    /\ timers # {}
    /\ \E t \in timers :
          /\ \A u \in timers : RLe(t.due, u.due)
          /\ RLt(now, t.due)
          /\ RLe(t.due, Norm(maxMs, 1000))
          /\ End([Cur EXCEPT !.now = t.due], "advance")

\* time passes for ms milliseconds in which no callback is due
Pass(ms, maxMs, maxOps) ==
    /\ userOps < maxOps
    /\ lastOp # "pass"
    /\ \A u \in timers : RLt(RAdd(now, Norm(ms, 1000)), u.due)
    /\ RLe(RAdd(now, Norm(ms, 1000)), Norm(maxMs, 1000))
    /\ End([Cur EXCEPT !.now = RAdd(now, Norm(ms, 1000))], "pass")

\* the main thread is blocked, or the clock jumps: ms milliseconds pass and
\* the callbacks that came due meanwhile run late
Late(ms, maxMs, maxJumps) ==
    /\ jumps < maxJumps
    /\ timers # {}
    /\ RLe(RAdd(now, Norm(ms, 1000)), Norm(maxMs, 1000))
    /\ End([Cur EXCEPT !.now = RAdd(now, Norm(ms, 1000)), !.jumps = @ + 1],
           "late")

-----------------------------------------------------------------------------
(* Timer callbacks.                                                        *)

SchedulerFire(driftSet) ==
    \E t \in timers : \E drift \in driftSet :
        /\ t.kind = "scheduler" /\ IsNext(t)
        /\ End(schedulerTick(Refired(t, 0, 0), drift), "schedulerTick")

RestartFire ==
    \E t \in timers :
        /\ t.kind = "restart" /\ IsNext(t)
        /\ End(startSequence(Fired(t)), "restart")

DedupFire ==
    \E t \in timers :
        /\ t.kind = "dedup" /\ IsNext(t)
        /\ End([Fired(t) EXCEPT !.scheduledEvents = @ \ {t.key}], "dedupExpire")

BankRestoreFire ==
    \E t \in timers :
        /\ t.kind = "bankRestore" /\ IsNext(t)
        /\ End(selectBank(Fired(t), t.key[2]), "bankRestore")

RafFire ==
    \E t \in timers :
        /\ t.kind = "raf" /\ IsNext(t)
        /\ End(recordPadEvent(Fired(t), t.n1), "recordPadEvent")

MetronomeFire ==
    \E t \in timers :
        /\ t.kind = "metronome" /\ IsNext(t)
        /\ End(metronomeTick(Refired(t, t.n1 + 1, 0), t.n1 + 1), "metronomeTick")

BeatFire ==
    \E t \in timers :
        /\ t.kind = "beat" /\ IsNext(t)
        /\ LET tickCount == t.n1 + 1
               total == IF tickCount % BEATS_PER_BAR = 0 THEN t.n2 + 1 ELSE t.n2
           IN  IF isRecording
               THEN End(barAdvancementTick(Refired(t, tickCount, total),
                                           tickCount, total),
                        "barAdvancementTick")
               ELSE End(stopTimers(Refired(t, t.n1, t.n2)), "barAdvancementTick")

PrecountFire ==
    \E t \in timers :
        /\ t.kind = "precount" /\ IsNext(t)
        /\ End(preCount(Fired(t), t.n1, t.period), "preCount")

TapClearFire ==
    \E t \in timers :
        /\ t.kind = "tapClear" /\ IsNext(t)
        /\ End(tapClear(Fired(t)), "tapClear")

LongPressFire ==
    \E t \in timers :
        /\ t.kind = "longPress" /\ IsNext(t)
        /\ End(longPressTimeout(Fired(t), t.n1), "longPressTimeout")

RapidFire ==
    \E t \in timers :
        /\ t.kind = "rapid" /\ IsNext(t)
        /\ End(rapidTick(Refired(t, t.n1, 0), t.n1), "rapidTick")

-----------------------------------------------------------------------------
(* User events.                                                            *)

User == [Begin EXCEPT !.userOps = @ + 1]

PlayClick(maxOps) ==
    /\ userOps < maxOps
    /\ End([playSequence(User) EXCEPT !.halted = FALSE], "playSequence")

\* the tag "stop-while-stopped" marks a STOP click made while nothing plays
StopClick(maxOps) ==
    /\ userOps < maxOps
    /\ LET s == stopAll(User)
       IN  End([(IF ~isPlaying /\ schedulerTimer = 0
                 THEN Log(s, "stop-while-stopped") ELSE s)
                    EXCEPT !.halted = TRUE],
               "stopAll")

RecordClick(maxOps) ==
    /\ userOps < maxOps
    /\ End([toggleRecording(User) EXCEPT
              !.halted = IF isRecording THEN @ ELSE FALSE],
           "toggleRecording")

OverdubClick(maxOps) ==
    /\ userOps < maxOps
    /\ End([toggleOverdub(User) EXCEPT
              !.halted = IF isRecording THEN @ ELSE FALSE],
           "toggleOverdub")

ClearClick(maxOps) ==
    /\ userOps < maxOps
    /\ End(clearSequence(User), "clearSequence")

BankClick(bank, maxOps) ==
    /\ userOps < maxOps
    /\ End([selectBank(User, bank) EXCEPT !.userBank = bank], "selectBank")

QuantizeClick(maxOps) ==
    /\ userOps < maxOps
    /\ End(cycleQuantizeConsolidated(User), "cycleQuantize")

\* PadController.triggerPad: a key, a click, a touch or a MIDI note
PadHit(padNumber, maxOps) ==
    /\ userOps < maxOps
    /\ End(playPad(User, padNumber, RInt(0)), "triggerPad")

BpmPress(direction, maxOps) ==
    /\ userOps < maxOps
    /\ longPressTimer = 0
    /\ End(startBPMLongPress(User, direction), "startBPMLongPress")

BpmRelease ==
    /\ longPressTimer # 0
    /\ End(stopBPMLongPress(Begin), "stopBPMLongPress")

\* a press of a BPM button whatever is pressed already: a second finger on the
\* button, or on the other BPM button
BpmTouch(direction, maxOps) ==
    /\ userOps < maxOps
    /\ End(startBPMLongPress(User, direction), "startBPMLongPress")

\* mouseup, mouseleave, touchend or touchcancel on a BPM button, pressed or not
BpmLift ==
    \E released \in {stopBPMLongPress(Begin)} :
        End(released, "stopBPMLongPress")

TapClick(maxOps) ==
    /\ userOps < maxOps
    /\ End(handleTapTempo(User), "handleTapTempo")

\* changeTempo(change) called with a delta of any size
ChangeTempoCall(change, maxOps) ==
    /\ userOps < maxOps
    /\ End(changeTempo(User, change), "changeTempo")

\* recalculateSequenceTiming(bpm, b) and then recalculateSequenceTiming(b, bpm)
RescaleRoundTrip(b, maxOps) ==
    /\ userOps < maxOps
    /\ End(recalculateSequenceTiming(
              recalculateSequenceTiming(User, bpm, b), b, bpm),
           "rescaleRoundTrip")

\* quantizeTime(time) called directly, and called again on its result
QuantizeCall(time, maxOps) ==
    /\ userOps < maxOps
    /\ LET out == quantizeTime(User, time)
       IN  End([User EXCEPT !.probe = [arg |-> time, out |-> out,
                                       again |-> quantizeTime(User, out)]],
               "quantizeTime")

-----------------------------------------------------------------------------
(* Recorded content.  An event as recordPadEvent stores it with quantization
   off: time = originalTime.                                               *)

Event(pad, bank, time) ==
    [pad |-> pad, time |-> time, bank |-> bank, originalTime |-> time,
     quantized |-> FALSE, overdubbed |-> FALSE]

\* one event per bar at time 0; the event of bar 1 was recorded in bank B
OnePerBar ==
    [b \in 0..(BAR_COUNT - 1) |->
        <<Event(1, IF b = 1 THEN "B" ELSE "A", RInt(0))>>]

\* one event, half a second into bar 0
HalfSecond ==
    [b \in 0..(BAR_COUNT - 1) |->
        IF b = 0 THEN <<Event(MaxPad, "A", Norm(1, 2))>> ELSE <<>>]

\* one event, on the first beat of bar 0, recorded in bank B
Downbeat ==
    [b \in 0..(BAR_COUNT - 1) |->
        IF b = 0 THEN <<Event(1, "B", RInt(0))>> ELSE <<>>]

\* two events on the first beat of bar 0: the first of a pad whose sample has
\* been deleted from its bank since, the second of a pad that has its sample
MissingSample ==
    [b \in 0..(BAR_COUNT - 1) |->
        IF b = 0 THEN <<Event(MaxPad, "B", RInt(0)), Event(1, "A", RInt(0))>>
        ELSE <<>>]

\* one event, one second into bar 0
OneSecond ==
    [b \in 0..(BAR_COUNT - 1) |->
        IF b = 0 THEN <<Event(1, "A", RInt(1))>> ELSE <<>>]

\* one event of bar 0 between two grid steps: 100 ms into the bar, where the
\* grid steps of MIN_BPM are 250 ms apart
OffGrid ==
    [b \in 0..(BAR_COUNT - 1) |->
        IF b = 0 THEN <<Event(1, "A", Norm(1, 10))>> ELSE <<>>]

\* the player some time after a recording was made and stopped, at tempo b
Recorded(content, b, t0) ==
    [Constructed EXCEPT !.sequence = content, !.bpm = b, !.now = t0]

-----------------------------------------------------------------------------
(* Spec: the transport.  Clicks and pad hits, in any order and at any      *)
(* callback instant, over the first MaxTimeMs milliseconds.                *)

MaxUserOps == 3
MaxTimeMs == 130

Init ==
    \E content \in {EmptySequence, OnePerBar} :
        Start(Recorded(content, INITIAL_BPM, RInt(0)))

Next ==
    \/ PlayClick(MaxUserOps)
    \/ StopClick(MaxUserOps)
    \/ RecordClick(MaxUserOps)
    \/ OverdubClick(MaxUserOps)
    \/ ClearClick(MaxUserOps)
    \/ \E bank \in {"A", "B"} : BankClick(bank, MaxUserOps)
    \/ \E p \in Pads : PadHit(p, MaxUserOps)
    \/ \E d \in {-1, 1} : BpmPress(d, MaxUserOps)
    \/ BpmRelease
    \/ SchedulerFire({0})
    \/ RestartFire
    \/ BankRestoreFire
    \/ RafFire
    \/ Advance(MaxTimeMs)

Spec == Init /\ [][Next]_vars

-----------------------------------------------------------------------------
(* SpecSched: the scheduler at work on a steady clock.  PLAY is clicked    *)
(* once, at 9.95 s, so that sequenceStartTime is 10.0, and the interval    *)
(* ticks every LOOKAHEAD until SchedMaxMs; each addition to nextNoteTime   *)
(* rounds up, down or not at all.                                          *)

SchedMaxMs == 16500
Drifts == {-1, 0, 1}

PlayAt == Norm(995, 100)

InitSched ==
    \E setup \in {<<OnePerBar, 150>>, <<OnePerBar, MAX_BPM>>,
                   <<MissingSample, MAX_BPM>>, <<OffGrid, MIN_BPM>>} :
        Start(Recorded(setup[1], setup[2], PlayAt))

NextSched ==
    \/ PlayClick(1)
    \/ SchedulerFire(Drifts)
    \/ DedupFire
    \/ BankRestoreFire
    \/ Advance(SchedMaxMs)

SpecSched == InitSched /\ [][NextSched]_vars

-----------------------------------------------------------------------------
(* SpecLate: the scheduler when callbacks run late.  PLAY is clicked once, *)
(* at 9.95 s; at most MaxJumps times the main thread is blocked (or the    *)
(* clock jumps forward) for one of JumpMs milliseconds.                    *)

LateMaxMs == 19700
MaxJumps == 1
JumpMs == {130, 300}

InitLate ==
    \E setup \in {<<Downbeat, MAX_BPM>>, <<HalfSecond, INITIAL_BPM>>} :
        Start(Recorded(setup[1], setup[2], PlayAt))

NextLate ==
    \/ PlayClick(1)
    \/ SchedulerFire(Drifts)
    \/ DedupFire
    \/ BankRestoreFire
    \/ Advance(LateMaxMs)
    \/ \E ms \in JumpMs : Late(ms, LateMaxMs, MaxJumps)

SpecLate == InitLate /\ [][NextLate]_vars

-----------------------------------------------------------------------------
(* SpecTempo: the tempo.  The BPM buttons (click, long press, release),    *)
(* tap tempo with the gaps TapGaps between taps, changeTempo called with   *)
(* the deltas Deltas and the rescale there and back, from a tempo of       *)
(* TempoBpms, with and without a recorded sequence, while nothing plays.   *)

MaxTempoOps == 2
TempoMaxMs == 3100
TempoBpms == {60, 120, 199, 200}
Deltas == {-150, -60, 0, 77, 150}
TapGaps == {300, 1000}
RoundTripBpms == {60, 97, 200}

InitTempo ==
    \E content \in {EmptySequence, OneSecond} : \E b \in TempoBpms :
        Start(Recorded(content, b, RInt(0)))

NextTempo ==
    \/ \E d \in {-1, 1} : BpmPress(d, MaxTempoOps)
    \/ BpmRelease
    \/ LongPressFire
    \/ RapidFire
    \/ TapClick(MaxTempoOps)
    \/ TapClearFire
    \/ \E c \in Deltas : ChangeTempoCall(c, MaxTempoOps)
    \/ \E b \in RoundTripBpms : RescaleRoundTrip(b, MaxTempoOps)
    \/ \E ms \in TapGaps : Pass(ms, TempoMaxMs, MaxTempoOps)
    \/ Advance(TempoMaxMs)

SpecTempo == InitTempo /\ [][NextTempo]_vars

-----------------------------------------------------------------------------
(* SpecQuantize: quantization.  From any strength the quantize button has  *)
(* set, the button cycles the strength further,                            *)
(* quantizeTime is called with the times k / QuantizeGrain of a bar, and   *)
(* pad hits are recorded in the first QuantizeMaxMs milliseconds after REC *)
(* (the pre-count records too), at a tempo of QuantizeBpms.                *)

MaxQuantizeOps == 2
QuantizeGrain == 64
QuantizeMaxMs == 100
QuantizeBpms == {MIN_BPM, 97, MAX_BPM}

\* the times k / QuantizeGrain of a bar, 0 <= time < barDuration
QuantizeTimes ==
    {RMul(barDuration(Cur), Norm(k, QuantizeGrain)) : k \in 0..(QuantizeGrain - 1)}

\* the quantize button has been clicked clicks times since construction
RECURSIVE QuantizeClicked(_, _)
QuantizeClicked(s, clicks) ==
    IF clicks = 0 THEN s
    ELSE QuantizeClicked(cycleQuantizeConsolidated(s), clicks - 1)

InitQuantize ==
    \E b \in QuantizeBpms : \E clicks \in 0..(Len(Strengths) - 1) :
        Start(QuantizeClicked(Recorded(EmptySequence, b, RInt(0)), clicks))

NextQuantize ==
    \/ QuantizeClick(MaxQuantizeOps)
    \/ \E time \in QuantizeTimes : QuantizeCall(time, MaxQuantizeOps)
    \/ RecordClick(MaxQuantizeOps)
    \/ PadHit(1, MaxQuantizeOps)
    \/ RafFire
    \/ Advance(QuantizeMaxMs)

SpecQuantize == InitQuantize /\ [][NextQuantize]_vars

-----------------------------------------------------------------------------
(* SpecRecord: a recording.  REC is clicked (to start, or to stop) in the  *)
(* first RecordClickUntilMs milliseconds, pads are hit at any callback     *)
(* instant, and the metronome, the pre-count, the beat interval and, after *)
(* the recording, the scheduler run for RecordMaxMs milliseconds, at a     *)
(* tempo of RecordBpms.  SpecRecordFair adds that timer callbacks that are *)
(* due are run and that time goes on.                                      *)

MaxRecordOps == 2
RecordClickUntilMs == 600
RecordMaxMs == 7000
RecordBpms == {190, MAX_BPM}

InitRecord ==
    \E b \in RecordBpms : Start(Recorded(EmptySequence, b, RInt(0)))

RecordCallbacks ==
    \/ MetronomeFire
    \/ BeatFire
    \/ PrecountFire
    \/ SchedulerFire({0})
    \/ RafFire
    \/ Advance(RecordMaxMs)

NextRecord ==
    \/ (RLe(now, Norm(RecordClickUntilMs, 1000)) /\ RecordClick(MaxRecordOps))
    \/ PadHit(1, MaxRecordOps)
    \/ RecordCallbacks

SpecRecord == InitRecord /\ [][NextRecord]_vars

\* a callback of RecordCallbacks can run: the timer that is due first is one
\* of its kinds and is due, or time can go on to it
CallbackPending ==
    \E t \in timers :
        /\ \A u \in timers : RLe(t.due, u.due)
        /\ \/ /\ RLe(t.due, now)
              /\ t.kind \in {"metronome", "beat", "precount", "scheduler", "raf"}
           \/ /\ RLt(now, t.due)
              /\ RLe(t.due, Norm(RecordMaxMs, 1000))

\* the event loop runs the callbacks that are due, and time goes on: weak
\* fairness of RecordCallbacks, with CallbackPending for its enabling
\* condition
SpecRecordFair ==
    SpecRecord /\ ([]<>(~CallbackPending) \/ []<><<RecordCallbacks>>_vars)

-----------------------------------------------------------------------------
(* SpecPlaying: what the user does to a playing sequence.  PLAY has just   *)
(* been clicked; in the first PlayingClickUntilMs milliseconds the user    *)
(* clicks PLAY, REC, OVERDUB, a BPM button (released before the long      *)
(* press begins) or TAP, and the callbacks of the scheduler, the restart,  *)
(* the pre-count, the metronome and the beat interval run for PlayingMaxMs *)
(* milliseconds.                                                           *)

MaxPlayingOps == 2
PlayingClickUntilMs == 60
PlayingMaxMs == 1300

InitPlaying ==
    \E content \in {OnePerBar, HalfSecond} :
        Start(playSequence(Recorded(content, MAX_BPM, RInt(0))))

NextPlaying ==
    \/ /\ RLe(now, Norm(PlayingClickUntilMs, 1000))
       /\ \/ PlayClick(MaxPlayingOps)
          \/ RecordClick(MaxPlayingOps)
          \/ OverdubClick(MaxPlayingOps)
          \/ \E d \in {-1, 1} : BpmPress(d, MaxPlayingOps)
          \/ BpmRelease
          \/ TapClick(MaxPlayingOps)
    \/ SchedulerFire({0})
    \/ RestartFire
    \/ DedupFire
    \/ BankRestoreFire
    \/ RafFire
    \/ PrecountFire
    \/ MetronomeFire
    \/ BeatFire
    \/ Advance(PlayingMaxMs)

SpecPlaying == InitPlaying /\ [][NextPlaying]_vars

-----------------------------------------------------------------------------
(* SpecTouch: the BPM buttons under several pointers.  The buttons are     *)
(* pressed MaxTouchOps times, also while one is held, and released at any  *)
(* time; the long-press timeouts and the rapid-change intervals run for    *)
(* TouchMaxMs milliseconds.  The player is stopped, at a tempo of          *)
(* TempoBpms, as in SpecTempo.                                             *)

MaxTouchOps == 2
TouchMaxMs == 700

NextTouch ==
    \/ \E d \in {-1, 1} : BpmTouch(d, MaxTouchOps)
    \/ BpmLift
    \/ LongPressFire
    \/ RapidFire
    \/ Advance(TouchMaxMs)

SpecTouch == InitTempo /\ [][NextTouch]_vars

-----------------------------------------------------------------------------
(* SpecBank: the user at the pads and the bank buttons while a sequence    *)
(* plays whose event was recorded in another bank.  PLAY has just been     *)
(* clicked on a sequence with one event of bank B on the first beat; the   *)
(* user hits pads, presses bank buttons and clicks OVERDUB, MaxBankOps     *)
(* times in all, while the scheduler, its bank restores and the animation  *)
(* frames run for BankMaxMs milliseconds.                                  *)

MaxBankOps == 2
BankMaxMs == 100

InitBank ==
    Start(playSequence(Recorded(Downbeat, INITIAL_BPM, RInt(0))))

NextBank ==
    \/ \E p \in Pads : PadHit(p, MaxBankOps)
    \/ \E bank \in {"A", "B", "C"} : BankClick(bank, MaxBankOps)
    \/ OverdubClick(MaxBankOps)
    \/ SchedulerFire({0})
    \/ BankRestoreFire
    \/ RafFire
    \/ Advance(BankMaxMs)

SpecBank == InitBank /\ [][NextBank]_vars

-----------------------------------------------------------------------------
(* Properties of the tempo.                                                *)

TempoOps == {"startBPMLongPress", "rapidTick", "handleTapTempo", "changeTempo"}

\* C6: MIN_BPM <= bpm <= MAX_BPM in every state.
C6_BpmInRange == MIN_BPM <= bpm /\ bpm <= MAX_BPM

\* two taps in the same millisecond (60000 / 0) have just set the tempo to
\* MAX_BPM
C6_Witness ==
    /\ lastOp = "handleTapTempo"
    /\ Len(tapTimes) >= 2
    /\ tapTimes[Len(tapTimes)] = tapTimes[Len(tapTimes) - 1]
    /\ bpm = MAX_BPM
    /\ \E b \in DOMAIN sequence : \E i \in DOMAIN sequence[b] :
          RLt(sequence[b][i].time, RInt(1))

\* C7: a tempo operation that changes the BPM from old to new multiplies every
\* stored event's time and originalTime by old / new and changes nothing else
\* of the sequence; one that leaves the BPM as it is leaves the sequence as
\* it is.
C7_Rescale ==
    [][lastOp' \in TempoOps =>
          /\ DOMAIN sequence' = DOMAIN sequence
          /\ \A b \in DOMAIN sequence :
                /\ Len(sequence'[b]) = Len(sequence[b])
                /\ \A i \in DOMAIN sequence[b] :
                      /\ sequence'[b][i].time =
                            RMul(sequence[b][i].time, Norm(bpm, bpm'))
                      /\ sequence'[b][i].originalTime =
                            RMul(sequence[b][i].originalTime, Norm(bpm, bpm'))
                      /\ sequence'[b][i].pad = sequence[b][i].pad
                      /\ sequence'[b][i].bank = sequence[b][i].bank]_vars

\* the example of the claim: the event recorded at 1.0 s at 120 BPM is at
\* 2.0 s after a change to 60 BPM
C7_Witness ==
    /\ lastOp \in TempoOps
    /\ bpm = MIN_BPM
    /\ sequence[0] # <<>>
    /\ sequence[0][1].time = RInt(2)
    /\ sequence[0][1].originalTime = RInt(2)

Tolerance == <<1, 1000000000>>

RAbs(a) == <<Abs(a[1]), a[2]>>

-----------------------------------------------------------------------------
(* Properties of the scheduler.                                            *)

loopDuration == RMul(barDuration(Cur), RInt(BAR_COUNT))

\* the dispatches so far: the scheduled starts in the log
Dispatches == {i \in DOMAIN started : started[i].sched}

\* the loop durations that have fully elapsed since sequenceStartTime
LoopsDone == RFloor(RDiv(RSub(now, sequenceStartTime), loopDuration))

\* the start time of the occurrence in cycle k of an event ev stored in bar b
OccurrenceAt(k, b, ev) ==
    RAdd(RAdd(RAdd(sequenceStartTime, RMul(RInt(k), loopDuration)),
              RMul(RInt(b), barDuration(Cur))),
         ev.time)

\* C2: with one event per bar at time 0, a steady clock and a tick every
\* LOOKAHEAD, after N full loop durations every (cycle, bar) pair of the
\* first N cycles has been dispatched exactly once.
C2_HorizonCoverage ==
    (schedulerTimer # 0 /\ sequence = OnePerBar) =>
        \A k \in 0..(LoopsDone - 1) : \A b \in DOMAIN sequence :
            Cardinality({i \in Dispatches :
                started[i].when = OccurrenceAt(k, b, sequence[b][1])}) = 1

DedupKey(e) == <<e.pad, e.bank, ToFixed3(e.when)>>

\* C3: no (pad, bank, start time to the millisecond) is played twice; a key
\* stays in the dedup set for its TTL, and triggerScheduled called again with
\* a key of the set starts nothing and changes neither the set nor the bank.
C3_DedupGuarantee ==
    /\ \A i, j \in Dispatches :
          DedupKey(started[i]) = DedupKey(started[j]) => i = j
    /\ \A i \in Dispatches :
          (\E t \in timers : /\ t.kind = "dedup"
                             /\ t.key = DedupKey(started[i])
                             /\ RLt(now, t.due))
             => DedupKey(started[i]) \in scheduledEvents
    /\ \A key \in scheduledEvents :
          LET again == triggerScheduled(Cur, [pad |-> key[1], bank |-> key[2]],
                                        Norm(key[3], 1000))
          IN  /\ again.started = started
              /\ again.scheduledEvents = scheduledEvents
              /\ again.currentBank = currentBank
              /\ again.timers = timers

\* a tick has just found a key in the dedup set and played nothing for it
C3_Witness ==
    /\ lastOp = "schedulerTick"
    /\ "duplicate-prevented" \in logged
    /\ Dispatches # {}

DispatchOf(e, b, ev) ==
    /\ e.pad = ev.pad
    /\ e.bank = ev.bank
    /\ LET q == RDiv(RSub(e.when, OccurrenceAt(0, b, ev)), loopDuration)
       IN  RIsInt(q) /\ q[1] >= 0

\* the loop cycle of a dispatch of ev
CycleOf(e, b, ev) ==
    RFloor(RDiv(RSub(e.when, OccurrenceAt(0, b, ev)), loopDuration))

\* the stored events, as <<bar, index>>
StoredEvents ==
    UNION {{<<b, j>> : j \in DOMAIN sequence[b]} : b \in DOMAIN sequence}

\* every dispatch is sequenceStartTime + k * loopDuration + b * barDuration
\* + t for a stored event (b, t) and a cycle k >= 0
C5_WhenFormula ==
    \A i \in Dispatches : \E x \in StoredEvents :
        DispatchOf(started[i], x[1], sequence[x[1]][x[2]])

\* C5 as claimed: the formula, and consecutive dispatches of one event are
\* exactly one loop duration apart.
C5_OneLoopApart ==
    /\ C5_WhenFormula
    /\ \A x \in StoredEvents : \A i, j \in Dispatches :
          LET ev == sequence[x[1]][x[2]]
              ki == CycleOf(started[i], x[1], ev)
              kj == CycleOf(started[j], x[1], ev)
          IN  (/\ DispatchOf(started[i], x[1], ev)
               /\ DispatchOf(started[j], x[1], ev)
               /\ ki < kj
               /\ \A m \in Dispatches :
                     DispatchOf(started[m], x[1], ev) =>
                        ~(/\ ki < CycleOf(started[m], x[1], ev)
                          /\ CycleOf(started[m], x[1], ev) < kj))
              => kj = ki + 1

\* C5 (amended): the formula, and two dispatches of one event are a whole
\* number (not zero) of loop durations apart; a cycle in between without a
\* dispatch is one whose event was skipped as late.
C5_DispatchTimes ==
    /\ C5_WhenFormula
    /\ \A x \in StoredEvents : \A i, j \in Dispatches :
          LET ev == sequence[x[1]][x[2]]
              ki == CycleOf(started[i], x[1], ev)
              kj == CycleOf(started[j], x[1], ev)
          IN  (/\ DispatchOf(started[i], x[1], ev)
               /\ DispatchOf(started[j], x[1], ev)
               /\ i # j)
              => /\ ki # kj
                 /\ \A k \in (ki + 1)..(kj - 1) :
                       \/ \E m \in Dispatches :
                             /\ DispatchOf(started[m], x[1], ev)
                             /\ CycleOf(started[m], x[1], ev) = k
                       \/ <<ev.pad, ev.bank, OccurrenceAt(k, x[1], ev)>>
                             \in dropped

\* the example of the claim: at 120 BPM with sequenceStartTime 10.0 the event
\* at 0.5 s in bar 0 has been dispatched at 10.5 and at 18.5
C5_Witness ==
    /\ bpm = INITIAL_BPM
    /\ sequenceStartTime = RInt(10)
    /\ sequence = HalfSecond
    /\ \E i, j \in Dispatches :
          /\ started[i].when = Norm(105, 10)
          /\ started[j].when = Norm(185, 10)

-----------------------------------------------------------------------------
(* Properties of the transport.                                            *)

\* C1: after the STOP click (stopAll, stopSequence) has returned, no scheduler
\* tick runs until a later explicit start request (a PLAY, REC or OVERDUB
\* click), whatever timers the earlier operations left pending.
C1_NoTickAfterStop == ~(halted /\ lastOp = "schedulerTick")

\* C9: every stored event has 0 <= time < barDuration at the current BPM.
C9_TimeWithinBar ==
    \A b \in DOMAIN sequence : \A i \in DOMAIN sequence[b] :
        /\ RLe(RInt(0), sequence[b][i].time)
        /\ RLt(sequence[b][i].time, barDuration(Cur))

\* C10: the sequence always has exactly BAR_COUNT bars, and right after
\* clearSequence every bar is empty and hasRecordedSequence is false.
C10_FourBars ==
    /\ DOMAIN sequence = 0..(BAR_COUNT - 1)
    /\ lastOp = "clearSequence" =>
          /\ \A b \in 0..(BAR_COUNT - 1) : sequence[b] = <<>>
          /\ ~hasRecordedSequence(Cur)

\* CLEAR has just been clicked while the scheduler was playing the sequence
C10_Witness ==
    /\ lastOp = "clearSequence"
    /\ schedulerTimer # 0
    /\ Dispatches # {}

-----------------------------------------------------------------------------
(* Properties of quantization.                                             *)

gridStep == RDiv(beatDuration(Cur), RInt(GRID_STEPS_PER_BEAT))

\* C11: with strength 0 quantizeTime(t) is t for every t in [0, barDuration),
\* and an event recorded with quantization off has time = originalTime.
C11_StrengthZeroIdentity ==
    /\ (lastOp = "quantizeTime" /\ quantizeStrength = RInt(0))
          => probe.out = probe.arg
    /\ \A b \in DOMAIN sequence : \A i \in DOMAIN sequence[b] :
          ~sequence[b][i].quantized
             => sequence[b][i].time = sequence[b][i].originalTime

\* quantizeTime has just been called at strength 0 with a time off the grid
C11_Witness ==
    /\ lastOp = "quantizeTime"
    /\ quantizeStrength = RInt(0)
    /\ ~RIsInt(RDiv(probe.arg, gridStep))

\* C12: with strength 1 the result of quantizeTime is a whole multiple of the
\* grid step, at least 0 and less than barDuration, and quantizeTime of the
\* result is the result.
C12_FullSnapIdempotent ==
    (lastOp = "quantizeTime" /\ quantizeStrength = RInt(1)) =>
        /\ RIsInt(RDiv(probe.out, gridStep))
        /\ RLe(RInt(0), probe.out)
        /\ RLt(probe.out, barDuration(Cur))
        /\ probe.again = probe.out

\* quantizeTime has just been called at strength 1 with a time off the grid
\* that snapped to a later step
C12_Witness ==
    /\ lastOp = "quantizeTime"
    /\ quantizeStrength = RInt(1)
    /\ ~RIsInt(RDiv(probe.arg, gridStep))
    /\ RLt(probe.arg, probe.out)

\* C13: for every t in [0, barDuration), every tempo and every strength,
\* 0 <= quantizeTime(t) < barDuration.
C13_QuantizeRange ==
    lastOp = "quantizeTime" =>
        /\ RLe(RInt(0), probe.out)
        /\ RLt(probe.out, barDuration(Cur))

\* a time in the last half step of the bar has just snapped to the bar
\* boundary and was wrapped to 0
C13_Witness ==
    /\ lastOp = "quantizeTime"
    /\ quantizeStrength = RInt(1)
    /\ RLt(RSub(barDuration(Cur), gridStep), probe.arg)
    /\ probe.out = RInt(0)

-----------------------------------------------------------------------------
(* Properties of start and stop.                                           *)

\* the pending callbacks of the scheduler interval
SchedulerTimers == {t \in timers : t.kind = "scheduler"}

\* C14: a start made while the scheduler is running (a PLAY click, or the
\* restart that a tempo change has left pending) changes neither
\* sequenceStartTime nor nextNoteTime and creates no further tick timer.
C14_StartWhileRunning ==
    [][(/\ lastOp' \in {"playSequence", "restart"}
        /\ isPlaying
        /\ schedulerTimer # 0)
       => /\ sequenceStartTime' = sequenceStartTime
          /\ nextNoteTime' = nextNoteTime
          /\ schedulerTimer' = schedulerTimer
          /\ Cardinality(SchedulerTimers') = Cardinality(SchedulerTimers)]_vars

\* the fields of the player and its pending callbacks
PlayerState ==
    <<isRecording, isOverdubbing, isPlaying, bpm, currentBar, currentBeat,
      sequence, sequenceStartTime, overdubStartTime, nextNoteTime,
      schedulerTimer, metronomeInterval, beatInterval, currentBank,
      scheduledEvents, quantizeMode, quantizeStrength, activeSources, timers,
      started>>

\* the part of the player stop has no business with when nothing plays
TransportState ==
    <<isPlaying, bpm, sequence, sequenceStartTime, overdubStartTime,
      nextNoteTime, schedulerTimer, currentBank, quantizeMode,
      quantizeStrength>>

-----------------------------------------------------------------------------
(* Properties of dispatch failures.                                        *)

HasSample(ev) == ev.pad \in samples[ev.bank]

\* the scheduled starts that the step has added
NewDispatches ==
    {i \in (Len(started) + 1)..Len(started') : started'[i].sched}

\* C16: a tick in which an event could not be played for lack of a sample
\* leaves the scheduler running (isPlaying, its interval pending), advances
\* nextNoteTime, and dispatches the events with a sample that are due at the
\* same time.
C16_TickSurvivesMissingSample ==
    [][(lastOp' = "schedulerTick" /\ "no-sample" \in logged')
       => /\ isPlaying'
          /\ schedulerTimer' = schedulerTimer
          /\ \E t \in timers' : t.kind = "scheduler" /\ t.id = schedulerTimer'
          /\ RLt(nextNoteTime, nextNoteTime')
          /\ \A x, y \in StoredEvents :
                LET ev == sequence[x[1]][x[2]]
                    failed == sequence[y[1]][y[2]]
                IN  (/\ x[1] = y[1]
                     /\ ev.time = failed.time
                     /\ HasSample(ev)
                     /\ ~HasSample(failed))
                    => \E i \in NewDispatches :
                          /\ started'[i].pad = ev.pad
                          /\ started'[i].bank = ev.bank]_vars

\* a tick has just failed to play the event without a sample and has
\* dispatched the event after it
C16_Witness ==
    /\ lastOp = "schedulerTick"
    /\ "no-sample" \in logged
    /\ sequence = MissingSample
    /\ isPlaying
    /\ \E i \in Dispatches : started[i].pad = 1 /\ started[i].bank = "A"

-----------------------------------------------------------------------------
(* Properties of overdub.                                                  *)

\* the pad hits of the user (not of the scheduler) since startOverdub
LiveHitsOfOverdub ==
    {i \in DOMAIN started' :
        /\ ~started'[i].sched
        /\ RLe(overdubStartTime, started'[i].when)}

\* C17: between startOverdub and stopRecording, unless the user clears the
\* sequence, every stored event stays at its place in its bar, and every
\* event a step adds is the event of a pad hit made by the user during the
\* overdub.
C17_OverdubOnlyAddsLiveHits ==
    [][(/\ isRecording /\ isOverdubbing
        /\ isRecording' /\ isOverdubbing'
        /\ lastOp' # "clearSequence")
       => \A b \in DOMAIN sequence :
             /\ b \in DOMAIN sequence'
             /\ Len(sequence[b]) <= Len(sequence'[b])
             /\ \A i \in 1..Len(sequence[b]) :
                   /\ sequence'[b][i].pad = sequence[b][i].pad
                   /\ sequence'[b][i].bank = sequence[b][i].bank
             /\ \A i \in (Len(sequence[b]) + 1)..Len(sequence'[b]) :
                   \E j \in LiveHitsOfOverdub :
                       started'[j].pad = sequence'[b][i].pad]_vars

-----------------------------------------------------------------------------
(* Properties of a recording.                                              *)

\* the metronome interval startPrecount has started
MetronomeTimer ==
    CHOOSE t \in timers : t.kind = "metronome" /\ t.id = metronomeInterval

\* the time of the startRecording call: the metronome interval was set then
\* and has run its callback n1 times since
RecordingStart ==
    RSub(MetronomeTimer.due,
         RMul(MetronomeTimer.period, RInt(MetronomeTimer.n1 + 1)))

\* the beats of the pre-count and of the recorded bars, in timer periods
BeatsTime(beats) == RMul(MetronomeTimer.period, RInt(beats))

SchedulerRunning ==
    /\ isPlaying
    /\ \E t \in timers : t.kind = "scheduler" /\ t.id = schedulerTimer

\* the beat callback ends the recording
RecordingEndsByItself ==
    /\ isRecording
    /\ ~isRecording'
    /\ lastOp' = "barAdvancementTick"

\* C18, what happens: a recording that is started and not stopped by the
\* user ends by itself when its beat callback has counted BAR_COUNT bars;
\* at that step the pre-count has taken PRE_COUNT_BARS bars of beats from the
\* startRecording call, the recording has taken BAR_COUNT bars of beats from
\* the end of the pre-count, and the loop plays (isPlaying, the scheduler
\* interval pending).
C18_RecordingSteps ==
    [][RecordingEndsByItself
       => /\ sequenceStartTime
               = RAdd(RecordingStart, BeatsTime(PRE_COUNT_BARS * BEATS_PER_BAR))
          /\ now' = RAdd(sequenceStartTime, BeatsTime(BAR_COUNT * BEATS_PER_BAR))
          /\ ~isRecording'
          /\ SchedulerRunning']_vars

\* C18, that it happens: every recording comes to its end, and unless the
\* user has stopped it (a REC click), the loop plays then.
C18_RecordingEnds ==
    isRecording ~> (/\ ~isRecording
                    /\ (lastOp = "toggleRecording" \/ SchedulerRunning))

\* C18: once startRecording is called and the user does not stop it, the
\* pre-count of PRE_COUNT_BARS bar elapses, exactly BAR_COUNT bars are
\* recorded, the recording ends by itself and the loop playback starts.
C18_AutoLoop == C18_RecordingSteps /\ C18_RecordingEnds

\* the beat callback has just ended a recording with a recorded pad hit
C18_Witness ==
    /\ lastOp = "barAdvancementTick"
    /\ ~isRecording
    /\ beatInterval # 0
    /\ SchedulerRunning
    /\ \E b \in DOMAIN sequence : sequence[b] # <<>>

-----------------------------------------------------------------------------
(* Properties of rejected requests.                                        *)

\* C19: recordPadEvent called while currentBar is not a bar of the sequence
\* does nothing: it does not throw and it leaves the sequence as it is.
C19_OutOfRangeBarIsNoOp ==
    [][(lastOp' = "recordPadEvent" /\ currentBar \notin 0..(BAR_COUNT - 1))
       => /\ "TypeError" \notin logged'
          /\ sequence' = sequence]_vars

NothingRecorded == \A b \in DOMAIN sequence : sequence[b] = <<>>

\* a PLAY click, or an OVERDUB click made while not recording (a request to
\* start), with nothing recorded
RequestWithoutContent ==
    /\ NothingRecorded
    /\ \/ lastOp' = "playSequence"
       \/ lastOp' = "toggleOverdub" /\ ~isRecording

\* C20 as stated: every request that needs recorded content is rejected with
\* a warning and changes nothing when the sequence is empty.
C20_AlwaysWarns ==
    [][RequestWithoutContent
       => /\ "no-sequence" \in logged'
          /\ PlayerState' = PlayerState]_vars

\* C20: with nothing recorded, a PLAY click and an OVERDUB click change
\* nothing (no scheduler, no isPlaying, no isRecording or isOverdubbing, no
\* pre-count timer), and they write the warning, except a PLAY click made
\* while isPlaying is true, which returns before the test.
C20_EmptySequenceRejected ==
    [][RequestWithoutContent
       => /\ PlayerState' = PlayerState
          /\ \/ "no-sequence" \in logged'
             \/ lastOp' = "playSequence" /\ isPlaying]_vars

\* an OVERDUB click has just been rejected for want of a sequence
C20_Witness ==
    /\ lastOp = "toggleOverdub"
    /\ "no-sequence" \in logged
    /\ NothingRecorded
    /\ ~isRecording /\ ~isOverdubbing /\ ~isPlaying
    /\ \A t \in timers : t.kind \notin {"precount", "metronome", "scheduler"}

-----------------------------------------------------------------------------
(* Properties of what playback leaves alone.                               *)

\* the pad hits of the user that have been started by now
LiveHits == {i \in DOMAIN started' : ~started'[i].sched}

\* C21: while a scheduler interval is pending, playback alone does not
\* change the sequence: a scheduler tick (and the bank restore and the dedup
\* expiry it sets) leaves the sequence as it is, and a bar gains an event
\* only by recordPadEvent storing a pad hit of the user.
C21_PlaybackLeavesSequence ==
    [][/\ lastOp' \in {"schedulerTick", "bankRestore", "dedupExpire"}
             => sequence' = sequence
       /\ \A b \in DOMAIN sequence :
             (/\ SchedulerTimers # {}
              /\ b \in DOMAIN sequence'
              /\ Len(sequence'[b]) > Len(sequence[b]))
             => /\ lastOp' = "recordPadEvent"
                /\ \E j \in LiveHits :
                      started'[j].pad = sequence'[b][Len(sequence'[b])].pad]_vars

-----------------------------------------------------------------------------
(* Properties of the bank switch of a dispatch.                            *)

\* C22: where the user selects no bank, once the restores that the ticks
\* have set are done (no bankRestore timeout is pending), currentBank is the
\* bank that was active before the ticks.
C22_BankRestored ==
    (\A t \in timers : t.kind # "bankRestore")
        => currentBank = Constructed.currentBank

-----------------------------------------------------------------------------
(* Properties of the cursor.                                               *)

\* C23: while a scheduler interval is pending, sequenceStartTime is changed
\* only by a step that starts playback (startSequence, called by PLAY, by
\* the restart after a tempo change and by the end of a recording): no step
\* of a recording, an overdub or a pre-count changes it.
C23_StartTimeOnlyOnStart ==
    [][(SchedulerTimers # {} /\ sequenceStartTime' # sequenceStartTime)
       => lastOp' \in {"playSequence", "restart", "barAdvancementTick"}]_vars

\* C24: a tempo change made while a scheduler interval is pending and
\* events are stored leaves no scheduler interval pending, so that every
\* later tick belongs to an interval of a later startSequence, which sets
\* sequenceStartTime and nextNoteTime anew.
C24_TempoChangeStopsTicks ==
    [][(/\ bpm' # bpm
        /\ SchedulerTimers # {}
        /\ ~NothingRecorded
        /\ ~NothingRecorded')
       => SchedulerTimers' = {}]_vars

\* C25: when the restart that a tempo change during playback has left
\* pending runs, the player is playing again and exactly one scheduler
\* interval is pending.
C25_RestartRunsOneScheduler ==
    [][lastOp' = "restart"
       => /\ isPlaying'
          /\ Cardinality(SchedulerTimers') = 1]_vars

\* C26: no step changes a stored event's position in beats: for every event
\* that is in the sequence before and after the step, time * bpm is the same
\* before and after, whichever tempo operation the step is and whether or
\* not it stops the scheduler for a restart.
C26_BeatPositionKept ==
    [][\A b \in DOMAIN sequence \cap DOMAIN sequence' :
          \A i \in DOMAIN sequence[b] \cap DOMAIN sequence'[b] :
              RMul(sequence'[b][i].time, RInt(bpm')) =
                  RMul(sequence[b][i].time, RInt(bpm))]_vars

\* two tempo changes less than RESTART_DELAY apart, the first made while
\* playing, and the restart has just run with the events still stored
C26_Witness ==
    /\ lastOp = "restart"
    /\ bpm = MAX_BPM - 2
    /\ isPlaying
    /\ \E b \in DOMAIN sequence : \E i \in DOMAIN sequence[b] :
          RLt(RInt(0), sequence[b][i].time)

\* C27: in every state currentBar is a bar index, 0 to BAR_COUNT - 1, and
\* currentBeat is a beat number, 1 to BEATS_PER_BAR.
C27_BarAndBeatInRange ==
    /\ currentBar \in 0..(BAR_COUNT - 1)
    /\ currentBeat \in 1..BEATS_PER_BAR

\* the step has run stopSequence: STOP, or a tempo change during playback
StopSequenceRan == lastOp' = "stopAll" \/ "restarting" \in logged'

\* the step has run startSequence: there is a new scheduler interval
StartSequenceRan == schedulerTimer' \notin {0, schedulerTimer}

FutureStarts ==
    {i \in DOMAIN started :
        /\ started[i].sched
        /\ ~started[i].stopped
        /\ RLt(now, started[i].when)}

BetweenGridSteps(ev) ==
    RMod(ev.time, RDiv(beatDuration(Cur), RInt(GRID_STEPS_PER_BEAT))) # RInt(0)

\* C30: while the scheduler runs, every occurrence whose time has come of a
\* stored event that lies between two grid steps has been dispatched exactly
\* once.
C30_OffGridOncePerCycle ==
    schedulerTimer # 0 =>
        \A b \in DOMAIN sequence : \A e \in DOMAIN sequence[b] :
            \A k \in 0..LoopsDone :
                (/\ BetweenGridSteps(sequence[b][e])
                 /\ RLe(OccurrenceAt(k, b, sequence[b][e]), now))
                => Cardinality({i \in Dispatches :
                       /\ started[i].pad = sequence[b][e].pad
                       /\ started[i].when =
                             OccurrenceAt(k, b, sequence[b][e])}) = 1

-----------------------------------------------------------------------------
(* Properties of the transport flags and the timers behind them.           *)

\* C31: in every state isPlaying is true exactly when the scheduler interval
\* of schedulerTimer is set.
C31_PlayingIffScheduler == isPlaying <=> schedulerTimer # 0

\* C32: in every state at most one scheduler interval is pending, and it is
\* the one whose handle schedulerTimer holds, so that stopSequence can clear
\* it.
C32_OneSchedulerInterval ==
    /\ Cardinality(SchedulerTimers) <= 1
    /\ \A t \in SchedulerTimers : t.id = schedulerTimer

\* C33: a step that begins with the recording stopped appends no event to
\* any bar of the sequence.
C33_NoAppendAfterStop ==
    [][~isRecording =>
          \A b \in DOMAIN sequence \cap DOMAIN sequence' :
              Len(sequence'[b]) <= Len(sequence[b])]_vars

\* C34: the source that a live pad hit starts is of the bank the user has
\* selected, and so is the event that its deferred recording callback
\* stores.
C34_LiveHitInUserBank ==
    [][/\ lastOp' = "triggerPad" =>
             \A i \in (Len(started) + 1)..Len(started') :
                 started'[i].bank = userBank
       /\ lastOp' = "recordPadEvent" =>
             \A b \in DOMAIN sequence \cap DOMAIN sequence' :
                 \A i \in (Len(sequence[b]) + 1)..Len(sequence'[b]) :
                     sequence'[b][i].bank = userBank]_vars

\* C35: when the user has just selected a bank and a deferred bank restore
\* of an earlier dispatch runs next, the bank is still the one the user
\* selected.
C35_UserBankSurvivesRestore ==
    [][(lastOp = "selectBank" /\ lastOp' = "bankRestore")
       => currentBank' = userBank]_vars

\* the bar that is being recorded at time t: the whole bars since the
\* pre-count ended, where sequenceStartTime was set
RecordingBarAt(t) ==
    RFloor(RDiv(RSub(t, sequenceStartTime), barDuration(Cur))) % BAR_COUNT

PrecountPending == \E t \in timers : t.kind = "precount"

\* C37: a step taken while the pre-count of the recording is still running
\* appends no event to any bar of the sequence.
C37_NoAppendDuringPrecount ==
    [][(isRecording /\ PrecountPending)
       => \A b \in DOMAIN sequence \cap DOMAIN sequence' :
             Len(sequence'[b]) <= Len(sequence[b])]_vars

\* C38: a pre-count step that runs when the recording that started it has
\* been stopped changes nothing: it does not set sequenceStartTime, does not
\* start the bar-advancement interval and leaves the bar and the beat.
C38_StalePrecountChangesNothing ==
    [][(lastOp' = "preCount" /\ ~isRecording)
       => /\ sequenceStartTime' = sequenceStartTime
          /\ beatInterval' = beatInterval
          /\ currentBar' = currentBar
          /\ currentBeat' = currentBeat]_vars

\* the counters of the bar-advancement interval: the beats and the bars it
\* has counted
BarCounters == {<<t.n1, t.n2>> : t \in {u \in timers : u.kind = "beat"}}

\* C39: a tempo operation during a recording or its pre-count leaves the
\* current bar and the counters of the bar-advancement interval as they
\* are, and starts no bar counting while the pre-count is running.
C39_TempoKeepsRecordingPosition ==
    [][(lastOp' \in TempoOps /\ isRecording)
       => /\ currentBar' = currentBar
          /\ BarCounters' = BarCounters
          /\ PrecountPending' => BarCounters' = {}]_vars

\* the long-press timeouts and the rapid-change intervals that are pending
PressTimers == {t \in timers : t.kind \in {"longPress", "rapid"}}

\* C40: after a release no long-press timeout and no rapid-change interval
\* is pending, and the BPM changes only in a press or while the timeout of a
\* press that has not been released is held.
C40_ReleaseEndsChanges ==
    [][/\ lastOp' = "stopBPMLongPress" => PressTimers' = {}
       /\ bpm' # bpm => (lastOp' = "startBPMLongPress" \/ longPressTimer # 0)]_vars

====
